---- MODULE Spec2Model ----
(***************************************************************************)
(* Model of the quantitative core of GlockAnalyse (stock_tools).           *)
(*                                                                         *)
(* Part 1: run_strategy_backtest (stock_app.py:204-276, duplicated in      *)
(* advanced_analysis.py:69-152), run on the frame that                     *)
(* calculate_advanced_indicators (stock_app.py:134-202) hands it.          *)
(*                                                                         *)
(* Units.  Money (cash, prices, bands, equity, markers) is counted in fen  *)
(* (1/100 yuan).  Closes are whole yuan and positions whole lots, so cost, *)
(* fee (0.0003 of the cost) and the 0.98/1.02 marker offsets are whole     *)
(* numbers of fen: the arithmetic below is the exact value of the Python   *)
(* expression, binary floating-point rounding aside.  MACD is counted in   *)
(* hundredths.                                                             *)
(*                                                                         *)
(* A pandas cell is either a number or NaN.  A cell is modelled as a set:  *)
(* {v} for the number v and {} for NaN, so that every comparison with NaN  *)
(* is false, as in numpy.                                                  *)
(*                                                                         *)
(* Part 2: the signal scoring block (stock_app.py:834-857, duplicated in   *)
(* print_report, advanced_analysis.py:199-233), run on the latest bar.     *)
(*                                                                         *)
(* Part 3: the predictions table with add_prediction and check_predictions *)
(* (db_manager.py:152-243), each call one atomic step.                     *)
(***************************************************************************)
EXTENDS Integers, Sequences, FiniteSets, TLC

VARIABLES
    pc,              \* "idle" | "loop" | "done" | "raised": where run_strategy_backtest is
    error,           \* the exception that ended the run, "none" otherwise
    n,               \* len(df)
    index,           \* df.index: the timestamps (day numbers) of the bars, in frame order
    hasBB,           \* df has the columns BBU/BBM/BBL
    hasMACD,         \* df has the columns MACD/MACD_signal/MACD_hist
    initial_capital, \* parameter of run_strategy_backtest
    i,               \* loop index: the number of bars processed so far
    row,             \* df.iloc[i] of the bar processed last
    cash,
    position,
    trade_log,
    equity_curve,
    buy_signals,
    sell_signals,
    total_return,    \* <<>> until computed, then <<numerator, denominator>>
    \* the signal scoring block (stock_app.py:834-857, print_report)
    hasKDJ,          \* df has the columns K/D/J
    score_pc,        \* "idle" | "start" | "scored" | "raised"
    latest,          \* df.iloc[-1]
    score,
    reasons,
    verdict,         \* "none" until the conclusion is shown
    \* the predictions table and the calls on it (db_manager.py:152-243)
    predictions,     \* the rows, in id order
    returned,        \* what the last call returned: see Returned
    shown,           \* what the prediction button of the watchlist page reported
                     \* for the last request: "none" | "success" | "error"
    conn             \* for each connection, the call running on it: see NoCall

bvars == <<pc, error, n, index, hasBB, hasMACD, initial_capital, i, row, cash, position,
           trade_log, equity_curve, buy_signals, sell_signals, total_return>>

svars == <<hasKDJ, score_pc, latest, score, reasons, verdict>>

pvars == <<predictions, returned, shown, conn>>

vars == <<bvars, svars, pvars>>

----------------------------------------------------------------------------
(* Bounds and input domains *)

MaxBars == 24
MaxIndexBars == 22

Closes == {10000, 10800, 11000}
BBUs == {10800}
BBMs == {10800, 11500}
MACDs == {0, 50}
InitialCapitals == {-100000, 0, 100000, 1100000, 10000000}

----------------------------------------------------------------------------
(* Program constants *)

(* Variant: the warm-up window is two bars short *)
WarmupShort == 20 - 2

Warmup == 20
LotSize == 100
CommissionNum == 3
CommissionDen == 10000
BuyMarkPct == 98
SellMarkPct == 102

NaN == {}

Num(v) == {v}

Cells(S) == {Num(v) : v \in S} \cup {NaN}

(* price > cell, price < cell, cell > 0: false when the cell is NaN *)
Above(price, cell) == \E v \in cell : price > v

Below(price, cell) == \E v \in cell : price < v

Positive(cell) == \E v \in cell : v > 0

(* Python int(a / b) for b > 0: truncation toward zero *)
IntDiv(a, b) == IF a >= 0 THEN a \div b ELSE -((-a) \div b)

----------------------------------------------------------------------------
(* calculate_advanced_indicators: a group of columns is added only when    *)
(* the indicator library returned a non-empty result without raising;      *)
(* otherwise the frame is returned without those columns.  Where a column  *)
(* exists, a cell of it may still be NaN.                                  *)

Rows ==
    [Close : Closes,
     BBU   : IF hasBB THEN Cells(BBUs) ELSE {NaN},
     BBM   : IF hasBB THEN Cells(BBMs) ELSE {NaN},
     MACD  : IF hasMACD THEN Cells(MACDs) ELSE {NaN}]

(* df.index.  A frame in timestamp order carries the day numbers 0, 1, 2,  *)
(* ...  Nothing in get_stock_data or run_strategy_backtest sorts or checks *)
(* the index, so a frame may also carry days out of order or repeated;     *)
(* Indexes(len) varies the days of the bars after warm-up.                 *)
Increasing(len) == [k \in 1..len |-> k - 1]

Indexes(len) ==
    {[k \in 1..len |-> IF k <= Warmup THEN k - 1 ELSE t[k - Warmup]] :
        t \in [1..(len - Warmup) -> (Warmup - 1)..(len - 1)]}

(* df.index[k] for the 0-based bar number k *)
Date(k) == index[k + 1]

NoRow == [Close |-> 0, BBU |-> NaN, BBM |-> NaN, MACD |-> NaN]

ColumnsPresent == hasBB /\ hasMACD

----------------------------------------------------------------------------
(* run_strategy_backtest: the trading logic of one bar *)

(* Variant: the entry size is not aligned to the lot *)
EntrySizeNoLot(c, price) == IntDiv(c, price)

EntrySize(c, price) == IntDiv(c, price * LotSize) * LotSize

Fee(amount) == (amount * CommissionNum) \div CommissionDen

(* Variant: the upper band is tested with >= *)
BuyConditionGe(r) == (\E v \in r.BBU : r.Close >= v) /\ Positive(r.MACD)

BuyCondition(r) == Above(r.Close, r.BBU) /\ Positive(r.MACD)

(* Variant: the mid band is tested with <= *)
SellConditionLe(r) == \E v \in r.BBM : r.Close <= v

SellCondition(r) == Below(r.Close, r.BBM)

(* Variant: the equity point leaves out the value of the position *)
EquityCashOnly(c, pos, price) == c

Equity(c, pos, price) == c + pos * price

Bought(st, date, price) ==
    LET shares == EntrySize(st.cash, price)
        cost   == shares * price
        fee    == Fee(cost)
    IN  IF shares > 0
        THEN [st EXCEPT !.cash = @ - (cost + fee),
                        !.position = shares,
                        !.trade_log = Append(@, [date |-> date, op |-> "BUY",
                                                 price |-> price, qty |-> shares]),
                        !.buy_mark = Num((price * BuyMarkPct) \div 100)]
        ELSE st

(* Variant: the sale forgets to clear the position *)
SoldKeepPosition(st, date, price) ==
    LET revenue == st.position * price
        fee     == Fee(revenue)
    IN  [st EXCEPT !.cash = @ + (revenue - fee),
                   !.trade_log = Append(@, [date |-> date, op |-> "SELL",
                                            price |-> price, qty |-> st.position]),
                   !.sell_mark = Num((price * SellMarkPct) \div 100)]

Sold(st, date, price) ==
    LET revenue == st.position * price
        fee     == Fee(revenue)
    IN  [st EXCEPT !.cash = @ + (revenue - fee),
                   !.trade_log = Append(@, [date |-> date, op |-> "SELL",
                                            price |-> price, qty |-> st.position]),
                   !.position = 0,
                   !.sell_mark = Num((price * SellMarkPct) \div 100)]

(* Variant: the exit rule is a second `if`, not the `elif` of the entry rule *)
TradingLogicNoElif(st, date, r) ==
    LET s1 == IF st.position = 0 /\ BuyCondition(r)
              THEN Bought(st, date, r.Close) ELSE st
    IN  IF s1.position > 0 /\ SellCondition(r)
        THEN Sold(s1, date, r.Close) ELSE s1

TradingLogic(st, date, r) ==
    IF st.position = 0
    THEN IF BuyCondition(r) THEN Bought(st, date, r.Close) ELSE st
    ELSE IF st.position > 0
         THEN IF SellCondition(r) THEN Sold(st, date, r.Close) ELSE st
         ELSE st

----------------------------------------------------------------------------
(* The signal scoring block: stock_app.py:834-857, the same code as        *)
(* print_report, advanced_analysis.py:199-233.  It reads df.iloc[-1].      *)
(* Prices are whole numbers here; K, D, J are on their 0..100 scale.       *)

ScoreCloses == {11, 12, 13}
ScoreBBMs == {12}
ScoreBBUs == {12, 14}
Ks == {60, 80}
Ds == {50, 60}
Js == {100, 110}
ScoreMACDs == {0, 50}
ScoreSignals == {0, 50}

KSaturation == 80
JOverbought == 100
StrongScore == 3
WeakScore == 1

LatestRows ==
    [Close       : Cells(ScoreCloses),
     BBM         : IF hasBB THEN Cells(ScoreBBMs) ELSE {NaN},
     BBU         : IF hasBB THEN Cells(ScoreBBUs) ELSE {NaN},
     K           : IF hasKDJ THEN Cells(Ks) ELSE {NaN},
     D           : IF hasKDJ THEN Cells(Ds) ELSE {NaN},
     J           : IF hasKDJ THEN Cells(Js) ELSE {NaN},
     MACD        : IF hasMACD THEN Cells(ScoreMACDs) ELSE {NaN},
     MACD_signal : IF hasMACD THEN Cells(ScoreSignals) ELSE {NaN}]

NoLatest == [Close |-> NaN, BBM |-> NaN, BBU |-> NaN, K |-> NaN, D |-> NaN, J |-> NaN,
             MACD |-> NaN, MACD_signal |-> NaN]

(* cell > cell, cell < number, cell > number: false when a cell is NaN *)
Gt(a, b) == \E x \in a, y \in b : x > y

LtNum(a, v) == \E x \in a : x < v

GtNum(a, v) == \E x \in a : x > v

(* One scoring step: the score and the reasons after the rule.  The        *)
(* reasons stand for the messages of the code:                             *)
(*   "above_mid"    股价位于布林中轨上方 (强势)                            *)
(*   "above_upper"  股价突破布林上轨 (极强/可能超买)                       *)
(*   "kdj_cross"    KDJ 金叉且未钝化                                       *)
(*   "j_overbought" KDJ J值过高 (超买风险)                                 *)
(*   "macd_bull"    MACD 处于多头状态                                      *)
Add(sr, delta, reason) == [score |-> sr.score + delta, reasons |-> Append(sr.reasons, reason)]

MidRule(sr, l) == IF Gt(l.Close, l.BBM) THEN Add(sr, 1, "above_mid") ELSE sr

UpperRule(sr, l) == IF Gt(l.Close, l.BBU) THEN Add(sr, 1, "above_upper") ELSE sr

(* Variant: the golden cross is tested with K >= D *)
KdjRuleGe(sr, l) ==
    IF (\E x \in l.K, y \in l.D : x >= y) /\ LtNum(l.K, KSaturation)
    THEN Add(sr, 1, "kdj_cross")
    ELSE IF GtNum(l.J, JOverbought) THEN Add(sr, -1, "j_overbought") ELSE sr

(* Variant: the overbought penalty is 2 *)
KdjRulePenalty2(sr, l) ==
    IF Gt(l.K, l.D) /\ LtNum(l.K, KSaturation)
    THEN Add(sr, 1, "kdj_cross")
    ELSE IF GtNum(l.J, JOverbought) THEN Add(sr, -2, "j_overbought") ELSE sr

KdjRule(sr, l) ==
    IF Gt(l.K, l.D) /\ LtNum(l.K, KSaturation)
    THEN Add(sr, 1, "kdj_cross")
    ELSE IF GtNum(l.J, JOverbought) THEN Add(sr, -1, "j_overbought") ELSE sr

MacdRule(sr, l) == IF Gt(l.MACD, l.MACD_signal) THEN Add(sr, 1, "macd_bull") ELSE sr

ScoreSignal(l) ==
    MacdRule(KdjRule(UpperRule(MidRule([score |-> 0, reasons |-> <<>>], l), l), l), l)

(* Variant: the strong band starts above 3 *)
VerdictStrict(sc) ==
    IF sc > StrongScore THEN "STRONG" ELSE IF sc <= WeakScore THEN "WEAK" ELSE "NEUTRAL"

Verdict(sc) ==
    IF sc >= StrongScore THEN "STRONG" ELSE IF sc <= WeakScore THEN "WEAK" ELSE "NEUTRAL"

(* No call on the predictions table yet *)
(* The value a call returned.  add_prediction returns the pair            *)
(* (ok, text); check_predictions returns the list messages.  The fields   *)
(* the call does not return are left FALSE, "" and <<>>.                  *)
Returned(op, ok, text, messages) == [op |-> op, ok |-> ok, text |-> text, messages |-> messages]

NoReturn == Returned("none", FALSE, "", <<>>)

(* Two connections, for the calls that overlap.  A call is "idle" (not     *)
(* running), "add_selected" (add_prediction after its SELECT: found says   *)
(* whether it fetched a PENDING row) or "check_selected"                   *)
(* (check_predictions after its SELECT: fetched holds the ids of the rows  *)
(* it fetched).                                                            *)
Connections == {1, 2}

NoPrices == [symbol \in {} |-> 0]

NoCall == [pc |-> "idle", user_id |-> 0, symbol |-> "", p_type |-> "", current_price |-> 0,
           found |-> FALSE, current_prices |-> NoPrices, fetched |-> {}]

PredictIdle ==
    /\ predictions = <<>>
    /\ returned = NoReturn
    /\ shown = "none"
    /\ conn = [c \in Connections |-> NoCall]

ScorerIdle ==
    /\ hasKDJ = TRUE
    /\ score_pc = "idle"
    /\ latest = NoLatest
    /\ score = 0
    /\ reasons = <<>>
    /\ verdict = "none"

BacktestIdle ==
    /\ pc = "idle"
    /\ error = "none"
    /\ n = 0
    /\ index = <<>>
    /\ initial_capital = 0
    /\ i = 0
    /\ row = NoRow
    /\ cash = 0
    /\ position = 0
    /\ trade_log = <<>>
    /\ equity_curve = <<>>
    /\ buy_signals = <<>>
    /\ sell_signals = <<>>
    /\ total_return = <<>>

InitScore ==
    /\ BacktestIdle
    /\ hasBB \in BOOLEAN
    /\ hasMACD \in BOOLEAN
    /\ hasKDJ \in BOOLEAN
    /\ latest \in LatestRows
    /\ score_pc = "start"
    /\ score = 0
    /\ reasons = <<>>
    /\ verdict = "none"
    /\ PredictIdle

(* All the columns the block reads exist: the four rules, then the verdict *)
ScoreLatest ==
    /\ score_pc = "start"
    /\ hasBB /\ hasKDJ /\ hasMACD
    /\ LET sr == ScoreSignal(latest)
       IN  /\ score' = sr.score
           /\ reasons' = sr.reasons
           /\ verdict' = Verdict(sr.score)
    /\ score_pc' = "scored"
    /\ UNCHANGED <<bvars, pvars, hasKDJ, latest>>

(* latest['BBM'], ['BBU'], ['K'], ['D'], ['J'], ['MACD'] or ['MACD_signal']  *)
(* names a missing column: KeyError, before any conclusion is shown          *)
ScoreKeyError ==
    /\ score_pc = "start"
    /\ ~(hasBB /\ hasKDJ /\ hasMACD)
    /\ score_pc' = "raised"
    /\ UNCHANGED <<bvars, pvars, hasKDJ, latest, score, reasons, verdict>>

NextScore == ScoreLatest \/ ScoreKeyError

SpecScore == InitScore /\ [][NextScore]_vars

----------------------------------------------------------------------------
(* The predictions table: add_prediction and check_predictions,            *)
(* db_manager.py:152-243, on the table of init_db.py:93-105.  Prices are   *)
(* in fen, as initial_price DECIMAL(10, 2) holds them; the products        *)
(* init_price * 1.01, * 0.98, * 0.99, * 1.02 are compared exactly, which   *)
(* is what the float products give for the initial price used here         *)
(* (100.00: 101.0, 98.0, 99.0, 102.0).                                     *)

MaxPredictions == 2

Users == {1, 2}
Symbols == {"A", "B"}
PredictionTypes == {"UP", "DOWN"}
InitialPrices == {10000}
CurrentPrices == {9700, 9800, 9900, 10100, 10200, 10300}

UpCorrectPct == 101
UpWrongPct == 98
DownCorrectPct == 99
DownWrongPct == 102

(* current_prices: a dict from some of the symbols to a price *)
PriceMaps == UNION {[S -> CurrentPrices] : S \in SUBSET Symbols}

(* Variant: the SELECT looks for a CORRECT row *)
HasPendingCorrect(user_id, symbol) ==
    \E k \in DOMAIN predictions :
        /\ predictions[k].user_id = user_id
        /\ predictions[k].symbol = symbol
        /\ predictions[k].status = "CORRECT"

(* SELECT id FROM predictions WHERE user_id = %s AND symbol = %s AND status = 'PENDING' *)
HasPending(user_id, symbol) ==
    \E k \in DOMAIN predictions :
        /\ predictions[k].user_id = user_id
        /\ predictions[k].symbol = symbol
        /\ predictions[k].status = "PENDING"

IsCorrect(p_type, curr_price, init_price) ==
    \/ p_type = "UP" /\ curr_price * 100 > init_price * UpCorrectPct
    \/ p_type = "DOWN" /\ curr_price * 100 < init_price * DownCorrectPct

IsWrong(p_type, curr_price, init_price) ==
    \/ /\ p_type = "UP"
       /\ ~(curr_price * 100 > init_price * UpCorrectPct)
       /\ curr_price * 100 < init_price * UpWrongPct
    \/ /\ p_type = "DOWN"
       /\ ~(curr_price * 100 < init_price * DownCorrectPct)
       /\ curr_price * 100 > init_price * DownWrongPct

(* Variant: the SELECT does not filter on status *)
ExaminedAnyStatus(p, user_id, current_prices) ==
    /\ p.user_id = user_id
    /\ p.symbol \in DOMAIN current_prices

(* Variant: the SELECT does not filter on user_id *)
ExaminedAnyUser(p, user_id, current_prices) ==
    /\ p.status = "PENDING"
    /\ p.symbol \in DOMAIN current_prices

(* The rows the SELECT of check_predictions returns that have a price *)
Examined(p, user_id, current_prices) ==
    /\ p.user_id = user_id
    /\ p.status = "PENDING"
    /\ p.symbol \in DOMAIN current_prices

(* The status of row p after the call *)
Checked(p, user_id, current_prices) ==
    IF ~Examined(p, user_id, current_prices) THEN p.status
    ELSE IF IsCorrect(p.prediction_type, current_prices[p.symbol], p.initial_price)
         THEN "CORRECT"
    ELSE IF IsWrong(p.prediction_type, current_prices[p.symbol], p.initial_price)
         THEN "INCORRECT"
    ELSE p.status

(* Variant: only the rows found correct are reported *)
MessagesCorrectOnly(user_id, current_prices) ==
    LET moved(p) == Checked(p, user_id, current_prices) = "CORRECT" /\ p.status # "CORRECT"
        rows == SelectSeq(predictions, moved)
    IN  [k \in DOMAIN rows |-> [symbol |-> rows[k].symbol, kind |-> "CORRECT"]]

(* One message for each UPDATE, in the order of the rows *)
Messages(user_id, current_prices) ==
    LET moved(p) == Checked(p, user_id, current_prices) # p.status
        rows == SelectSeq(predictions, moved)
    IN  [k \in DOMAIN rows |->
            [symbol |-> rows[k].symbol,
             kind |-> Checked(rows[k], user_id, current_prices)]]

InitPredict ==
    /\ BacktestIdle
    /\ hasBB = TRUE
    /\ hasMACD = TRUE
    /\ ScorerIdle
    /\ PredictIdle

(* Variant: a request for a pair with a PENDING row replaces its direction *)
add_prediction_replace(user_id, symbol, p_type, current_price) ==
    /\ IF HasPending(user_id, symbol)
       THEN /\ returned' = Returned("add_prediction", FALSE, "pending", <<>>)
            /\ predictions' = [k \in DOMAIN predictions |->
                   IF /\ predictions[k].user_id = user_id
                      /\ predictions[k].symbol = symbol
                      /\ predictions[k].status = "PENDING"
                   THEN [predictions[k] EXCEPT !.prediction_type = p_type]
                   ELSE predictions[k]]
       ELSE /\ Len(predictions) < MaxPredictions
            /\ predictions' = Append(predictions,
                   [id |-> Len(predictions) + 1, user_id |-> user_id,
                    symbol |-> symbol, prediction_type |-> p_type,
                    initial_price |-> current_price, status |-> "PENDING"])
            /\ returned' = Returned("add_prediction", TRUE, "recorded", <<>>)

(* add_prediction: refused while the pair has a PENDING row, else INSERT *)
add_prediction(user_id, symbol, p_type, current_price) ==
    /\ IF HasPending(user_id, symbol)
       THEN /\ returned' = Returned("add_prediction", FALSE, "pending", <<>>)
            /\ UNCHANGED predictions
       ELSE /\ Len(predictions) < MaxPredictions
            /\ predictions' = Append(predictions,
                   [id |-> Len(predictions) + 1, user_id |-> user_id,
                    symbol |-> symbol, prediction_type |-> p_type,
                    initial_price |-> current_price, status |-> "PENDING"])
            /\ returned' = Returned("add_prediction", TRUE, "recorded", <<>>)

(* check_predictions: every PENDING row of the user with a price is        *)
(* compared, updated when it is correct or wrong, then commit; the         *)
(* messages are returned                                                   *)
check_predictions(user_id, current_prices) ==
    /\ predictions' = [k \in DOMAIN predictions |->
           [predictions[k] EXCEPT !.status = Checked(predictions[k], user_id, current_prices)]]
    /\ returned' = Returned("check_predictions", FALSE, "", Messages(user_id, current_prices))

(* add_prediction found no connection (line 154) or an execute or the      *)
(* commit raised (lines 172-174): nothing is committed, (False, text)      *)
add_prediction_fails ==
    /\ returned' = Returned("add_prediction", FALSE, "failed", <<>>)
    /\ UNCHANGED predictions

(* bool() of the pair add_prediction returned: a tuple is true when it is  *)
(* not empty                                                               *)
Truthy(tuple) == Len(tuple) # 0

(* stock_app.py:577-587: if db_manager.add_prediction(...): st.success     *)
(* else: st.error                                                          *)
Shown(result) == IF Truthy(<<result.ok, result.text>>) THEN "success" ELSE "error"

(* The buttons of a watchlist card: the request, then the report *)
AddPrediction ==
    \E user_id \in Users, symbol \in Symbols, p_type \in PredictionTypes,
       current_price \in InitialPrices :
        /\ add_prediction(user_id, symbol, p_type, current_price)
        /\ shown' = Shown(returned')
        /\ UNCHANGED <<bvars, svars, conn>>

AddPredictionFails ==
    /\ add_prediction_fails
    /\ shown' = Shown(returned')
    /\ UNCHANGED <<bvars, svars, conn>>

CheckPredictions ==
    \E user_id \in Users, current_prices \in PriceMaps :
        /\ check_predictions(user_id, current_prices)
        /\ shown' = "none"
        /\ UNCHANGED <<bvars, svars, conn>>

NextPredict == AddPrediction \/ AddPredictionFails \/ CheckPredictions

SpecPredict == InitPredict /\ [][NextPredict]_vars

----------------------------------------------------------------------------
(* Calls that overlap.  Every call opens its own connection                *)
(* (get_connection, db_manager.py:16-62) and commits once, at its end; a   *)
(* SELECT reads what is committed.  A call is two steps: its SELECT, then  *)
(* its INSERT or UPDATEs with the commit.  One user and one symbol: the    *)
(* calls compete for the same rows.                                        *)

RaceUsers == {1}
RaceSymbols == {"A"}
RacePrices == {9700, 10300}
RacePriceMaps == UNION {[S -> RacePrices] : S \in SUBSET RaceSymbols}

(* INSERTs still to come from the calls that found no PENDING row *)
Inserting == {c \in Connections : conn[c].pc = "add_selected" /\ ~conn[c].found}

(* add_prediction, lines 153-162: connect, SELECT ... status = 'PENDING', fetchone() *)
AddSelect ==
    \E c \in Connections, user_id \in RaceUsers, symbol \in RaceSymbols,
       p_type \in PredictionTypes, current_price \in InitialPrices :
        /\ conn[c].pc = "idle"
        /\ Len(predictions) + Cardinality(Inserting) < MaxPredictions
        /\ conn' = [conn EXCEPT ![c] =
               [NoCall EXCEPT !.pc = "add_selected", !.user_id = user_id, !.symbol = symbol,
                              !.p_type = p_type, !.current_price = current_price,
                              !.found = HasPending(user_id, symbol)]]
        /\ UNCHANGED <<bvars, svars, predictions, returned, shown>>

(* add_prediction, lines 162-171: return False on a fetched row, else      *)
(* INSERT, commit, return True                                             *)
AddFinish ==
    \E c \in Connections :
        /\ conn[c].pc = "add_selected"
        /\ IF conn[c].found
           THEN /\ returned' = Returned("add_prediction", FALSE, "pending", <<>>)
                /\ UNCHANGED predictions
           ELSE /\ predictions' = Append(predictions,
                       [id |-> Len(predictions) + 1, user_id |-> conn[c].user_id,
                        symbol |-> conn[c].symbol, prediction_type |-> conn[c].p_type,
                        initial_price |-> conn[c].current_price, status |-> "PENDING"])
                /\ returned' = Returned("add_prediction", TRUE, "recorded", <<>>)
        /\ conn' = [conn EXCEPT ![c] = NoCall]
        /\ UNCHANGED <<bvars, svars, shown>>

(* check_predictions, lines 200-206: connect, SELECT the PENDING rows of   *)
(* the user, fetchall()                                                    *)
CheckSelect ==
    \E c \in Connections, user_id \in RaceUsers, current_prices \in RacePriceMaps :
        /\ conn[c].pc = "idle"
        /\ conn' = [conn EXCEPT ![c] =
               [NoCall EXCEPT !.pc = "check_selected", !.user_id = user_id,
                              !.current_prices = current_prices,
                              !.fetched = {k \in DOMAIN predictions :
                                              /\ predictions[k].user_id = user_id
                                              /\ predictions[k].status = "PENDING"}]]
        /\ UNCHANGED <<bvars, svars, predictions, returned, shown>>

(* The row with id k as the call fetched it *)
Fetched(k) == [predictions[k] EXCEPT !.status = "PENDING"]

(* The status the loop body finds for the fetched row k: "PENDING" when it *)
(* issues no UPDATE                                                        *)
Found(c, k) == Checked(Fetched(k), conn[c].user_id, conn[c].current_prices)

(* The rows the call updates: UPDATE predictions SET status = ... WHERE id = %s *)
Updated(c) == {k \in conn[c].fetched : Found(c, k) # "PENDING"}

(* check_predictions, lines 208-239: the loop over the fetched rows with   *)
(* its UPDATEs and messages, commit, return messages                       *)
CheckFinish ==
    \E c \in Connections :
        /\ conn[c].pc = "check_selected"
        /\ predictions' = [k \in DOMAIN predictions |->
               IF k \in Updated(c)
               THEN [predictions[k] EXCEPT !.status = Found(c, k)]
               ELSE predictions[k]]
        /\ LET reported(p) == p.id \in Updated(c)
               rows == SelectSeq(predictions, reported)
           IN  returned' = Returned("check_predictions", FALSE, "",
                   [j \in DOMAIN rows |->
                       [symbol |-> rows[j].symbol, kind |-> Found(c, rows[j].id)]])
        /\ conn' = [conn EXCEPT ![c] = NoCall]
        /\ UNCHANGED <<bvars, svars, shown>>

InitRace == InitPredict

NextRace == AddSelect \/ AddFinish \/ CheckSelect \/ CheckFinish

SpecRace == InitRace /\ [][NextRace]_vars

----------------------------------------------------------------------------
(* State machine *)

Init ==
    /\ pc = "loop"
    /\ error = "none"
    /\ n \in 0..MaxBars
    /\ index = Increasing(n)
    /\ hasBB \in BOOLEAN
    /\ hasMACD \in BOOLEAN
    /\ initial_capital \in InitialCapitals
    /\ i = 0
    /\ row = NoRow
    /\ cash = initial_capital
    /\ position = 0
    /\ trade_log = <<>>
    /\ equity_curve = <<>>
    /\ buy_signals = <<>>
    /\ sell_signals = <<>>
    /\ total_return = <<>>
    /\ ScorerIdle
    /\ PredictIdle

(* i < 20: the bar only appends cash and two NaN markers *)
WarmupBar ==
    /\ pc = "loop"
    /\ UNCHANGED <<svars, pvars>>
    /\ i < n
    /\ i < Warmup
    /\ \E r \in Rows : row' = r
    /\ equity_curve' = Append(equity_curve, cash)
    /\ buy_signals' = Append(buy_signals, NaN)
    /\ sell_signals' = Append(sell_signals, NaN)
    /\ i' = i + 1
    /\ UNCHANGED <<pc, error, n, index, hasBB, hasMACD, initial_capital, cash, position,
                   trade_log, total_return>>

(* i >= 20 and df.iloc[i]['BBU'], ['BBM'] or ['MACD'] names a missing column *)
KeyErrorBar ==
    /\ pc = "loop"
    /\ UNCHANGED <<svars, pvars>>
    /\ i < n
    /\ i >= Warmup
    /\ ~ColumnsPresent
    /\ \E r \in Rows : row' = r
    /\ pc' = "raised"
    /\ error' = "KeyError"
    /\ UNCHANGED <<n, index, hasBB, hasMACD, initial_capital, i, cash, position, trade_log,
                   equity_curve, buy_signals, sell_signals, total_return>>

(* i >= 20: the trading logic, then the equity point and the two markers *)
TradeBar ==
    /\ pc = "loop"
    /\ UNCHANGED <<svars, pvars>>
    /\ i < n
    /\ i >= Warmup
    /\ ColumnsPresent
    /\ \E r \in Rows :
         LET st == TradingLogic([cash |-> cash, position |-> position,
                                 trade_log |-> trade_log,
                                 buy_mark |-> NaN, sell_mark |-> NaN], Date(i), r)
         IN  /\ row' = r
             /\ cash' = st.cash
             /\ position' = st.position
             /\ trade_log' = st.trade_log
             /\ equity_curve' = Append(equity_curve, Equity(st.cash, st.position, r.Close))
             /\ buy_signals' = Append(buy_signals, st.buy_mark)
             /\ sell_signals' = Append(sell_signals, st.sell_mark)
    /\ i' = i + 1
    /\ UNCHANGED <<pc, error, n, index, hasBB, hasMACD, initial_capital, total_return>>

(* Variant: a position still open after the last bar is sold at the last   *)
(* close before the result is computed                                     *)
ReturnLiquidate ==
    /\ pc = "loop"
    /\ UNCHANGED <<svars, pvars>>
    /\ i = n
    /\ IF n = 0
       THEN /\ pc' = "raised"
            /\ error' = "IndexError"
            /\ UNCHANGED <<total_return, cash, position, trade_log, equity_curve>>
       ELSE IF initial_capital = 0 /\ n <= Warmup
       THEN /\ pc' = "raised"
            /\ error' = "ZeroDivisionError"
            /\ UNCHANGED <<total_return, cash, position, trade_log, equity_curve>>
       ELSE LET st == IF position > 0
                      THEN Sold([cash |-> cash, position |-> position,
                                 trade_log |-> trade_log,
                                 buy_mark |-> NaN, sell_mark |-> NaN], Date(i - 1),
                                row.Close)
                      ELSE [cash |-> cash, position |-> position, trade_log |-> trade_log]
            IN  /\ pc' = "done"
                /\ cash' = st.cash
                /\ position' = st.position
                /\ trade_log' = st.trade_log
                /\ equity_curve' = [equity_curve EXCEPT ![Len(equity_curve)] = st.cash]
                /\ total_return' = <<(st.cash - initial_capital) * 100, initial_capital>>
                /\ UNCHANGED error
    /\ UNCHANGED <<n, index, hasBB, hasMACD, initial_capital, i, row, buy_signals,
                   sell_signals>>

(* After the loop: equity_curve[-1] of an empty list raises IndexError; a    *)
(* zero initial_capital divides a Python int by zero when the last equity    *)
(* point is the int appended in warm-up, and gives the float nan (0/0) when  *)
(* it is the numpy value appended after warm-up.                             *)
Return ==
    /\ pc = "loop"
    /\ UNCHANGED <<svars, pvars>>
    /\ i = n
    /\ IF n = 0
       THEN /\ pc' = "raised"
            /\ error' = "IndexError"
            /\ UNCHANGED total_return
       ELSE IF initial_capital = 0 /\ n <= Warmup
       THEN /\ pc' = "raised"
            /\ error' = "ZeroDivisionError"
            /\ UNCHANGED total_return
       ELSE /\ pc' = "done"
            /\ total_return' = <<(equity_curve[Len(equity_curve)] - initial_capital) * 100,
                                 initial_capital>>
            /\ UNCHANGED error
    /\ UNCHANGED <<n, index, hasBB, hasMACD, initial_capital, i, row, cash, position,
                   trade_log, equity_curve, buy_signals, sell_signals>>

Next == WarmupBar \/ KeyErrorBar \/ TradeBar \/ Return

Spec == Init /\ [][Next]_vars

(* The same run on frames whose index is not necessarily in order *)
InitIndex ==
    /\ pc = "loop"
    /\ error = "none"
    /\ n \in {0} \cup (Warmup + 1)..MaxIndexBars
    /\ index \in Indexes(n)
    /\ hasBB \in BOOLEAN
    /\ hasMACD \in BOOLEAN
    /\ initial_capital \in {1100000, 10000000}
    /\ i = 0
    /\ row = NoRow
    /\ cash = initial_capital
    /\ position = 0
    /\ trade_log = <<>>
    /\ equity_curve = <<>>
    /\ buy_signals = <<>>
    /\ sell_signals = <<>>
    /\ total_return = <<>>
    /\ ScorerIdle
    /\ PredictIdle

SpecIndex == InitIndex /\ [][Next]_vars

----------------------------------------------------------------------------
(* Vocabulary of the properties.  A step taken from BarPending processes   *)
(* bar i; row' is that bar.                                                *)

BarPending == pc = "loop" /\ i < n

BarCompleted == i' = i + 1

Grew == Len(trade_log') = Len(trade_log) + 1

LastTrade == trade_log[Len(trade_log)]

LastTradeNew == trade_log'[Len(trade_log')]

BuyFired == Grew /\ LastTradeNew.op = "BUY"

SellFired == Grew /\ LastTradeNew.op = "SELL"

Undefined(cell) == cell = {}

----------------------------------------------------------------------------
(* C1: in every state of a run, shares is a non-negative multiple of the   *)
(* lot size 100, and cash is >= 0 once a BUY or SELL has settled (cash     *)
(* changes only when a trade settles).  The code violates the cash part:   *)
(* the entry size ignores the commission.                                  *)
C1_LotAlignedAndCashNonNegative ==
    /\ position >= 0
    /\ position % 100 = 0
    /\ (trade_log # <<>> => cash >= 0)

(* C2: a BUY fires at bar i iff the simulator is FLAT entering the bar,    *)
(* i >= 20, close > BollingerUpper, MACD > 0 and the entry size            *)
(* floor(cash/close/100)*100 is > 0; otherwise, while FLAT, no trade fires *)
(* and the state stays FLAT.                                               *)
C2_BuyIff ==
    [][BarPending =>
        LET r    == row'
            size == (cash \div (r.Close * 100)) * 100
            cond == /\ position = 0
                    /\ i >= 20
                    /\ \E u \in r.BBU : r.Close > u
                    /\ \E m \in r.MACD : m > 0
                    /\ size > 0
        IN  /\ BuyFired <=> cond
            /\ (position = 0 /\ ~cond) => (trade_log' = trade_log /\ position' = 0)]_vars

C2_Witness ==
    /\ trade_log # <<>>
    /\ LastTrade.op = "BUY"
    /\ LastTrade.date = i - 1
    /\ position > 0

(* C3: when a BUY fires, the quantity is floor(cash/close/100)*100 of the  *)
(* cash before the trade, shares becomes that quantity and cash falls by   *)
(* quantity*close plus the fee quantity*close*0.0003; cash 100000 and      *)
(* close 110 give 900 shares and a fee of 29.7 (money in fen).             *)
C3_BuySettlement ==
    [][(BarPending /\ BuyFired) =>
        LET close == row'.Close
            qty   == (cash \div (close * 100)) * 100
        IN  /\ LastTradeNew = [date |-> i, op |-> "BUY", price |-> close, qty |-> qty]
            /\ position' = qty
            /\ (qty * close * 3) % 10000 = 0
            /\ cash' = cash - qty * close - (qty * close * 3) \div 10000
            /\ (cash = 10000000 /\ close = 11000) =>
                   (qty = 900 /\ cash - cash' - qty * close = 2970)]_vars

C3_Witness ==
    /\ trade_log # <<>>
    /\ LastTrade = [date |-> 21, op |-> "BUY", price |-> 11000, qty |-> 900]
    /\ row.BBU = {10800}
    /\ row.MACD = {50}
    /\ position = 900
    /\ cash = 97030

(* C4: a SELL fires at bar i iff the simulator is LONG entering the bar    *)
(* and close < BollingerMid; it sells the whole position: cash rises by    *)
(* shares*close less the fee, shares becomes 0 and a SELL trade for the    *)
(* held quantity is appended.                                              *)
C4_SellIffAndSettlement ==
    [][BarPending =>
        LET close == row'.Close
            cond  == position > 0 /\ \E m \in row'.BBM : close < m
        IN  /\ SellFired <=> cond
            /\ cond =>
                 /\ LastTradeNew = [date |-> i, op |-> "SELL", price |-> close,
                                    qty |-> position]
                 /\ position' = 0
                 /\ (position * close * 3) % 10000 = 0
                 /\ cash' = cash + position * close - (position * close * 3) \div 10000]_vars

C4_Witness ==
    /\ trade_log # <<>>
    /\ LastTrade.op = "SELL"
    /\ LastTrade.date = i - 1
    /\ position = 0
    /\ cash > 0

(* C5: per bar the trade log grows by at most one record, and no two       *)
(* records carry the same bar, also at a bar that satisfies the entry and  *)
(* the exit condition at once.                                             *)
C5_OneTradePerBar ==
    [][/\ Len(trade_log') \in {Len(trade_log), Len(trade_log) + 1}
       /\ \A a, b \in DOMAIN trade_log' :
              a # b => trade_log'[a].date # trade_log'[b].date]_vars

C5_Witness ==
    /\ trade_log # <<>>
    /\ LastTrade.date = i - 1
    /\ \E u \in row.BBU : row.Close > u
    /\ \E m \in row.MACD : m > 0
    /\ \E m \in row.BBM : row.Close < m

(* C6: one position at a time: the trade log alternates BUY, SELL, BUY,    *)
(* ... starting with a BUY, each SELL has the quantity of the BUY before   *)
(* it, and shares are held exactly while the last record is a BUY.         *)
C6_Alternation ==
    /\ \A k \in DOMAIN trade_log :
          /\ trade_log[k].op = IF k % 2 = 1 THEN "BUY" ELSE "SELL"
          /\ k % 2 = 0 => trade_log[k].qty = trade_log[k - 1].qty
    /\ position = IF Len(trade_log) % 2 = 1 THEN LastTrade.qty ELSE 0
    /\ (Len(trade_log) % 2 = 1) => position > 0

C6_Witness ==
    /\ Len(trade_log) >= 3
    /\ trade_log[3].op = "BUY"
    /\ trade_log[2].qty = trade_log[1].qty

(* C7: every bar with index < 20, and every bar on which BollingerUpper,   *)
(* BollingerMid or MACD is undefined, evaluates no signal and appends only *)
(* a cash-only equity point and undefined markers.  The code has no guard  *)
(* for an undefined indicator after warm-up: it raises KeyError when the   *)
(* column is absent, trades when the rule of the current state does not    *)
(* read the NaN cell, and marks a held position to market.                 *)
C7_UndefinedBarCashOnly ==
    [][(/\ BarPending
        /\ \/ i < 20
           \/ Undefined(row'.BBU)
           \/ Undefined(row'.BBM)
           \/ Undefined(row'.MACD)) =>
        /\ BarCompleted
        /\ trade_log' = trade_log
        /\ cash' = cash
        /\ position' = position
        /\ equity_curve' = Append(equity_curve, cash)
        /\ buy_signals' = Append(buy_signals, {})
        /\ sell_signals' = Append(sell_signals, {})]_vars

(* C8: a bar on which a required indicator (BollingerUpper, BollingerMid   *)
(* or MACD) is undefined never makes the run raise and is a hold: cash,    *)
(* shares and the trade log are the same after the bar as before it,       *)
(* FLAT or LONG.  The code raises KeyError when the indicator's column is  *)
(* absent, and sells while LONG when only MACD is undefined.               *)
C8_UndefinedBarIsHold ==
    [][(/\ BarPending
        /\ \/ Undefined(row'.BBU)
           \/ Undefined(row'.BBM)
           \/ Undefined(row'.MACD)) =>
        /\ pc' # "raised"
        /\ cash' = cash
        /\ position' = position
        /\ trade_log' = trade_log]_vars

(* C9: with fewer than 20 bars the run records no trade and every equity   *)
(* point equals initial_capital; the frame of 1..19 bars with a non-zero   *)
(* capital runs to its result, one equity point per bar, return 0.         *)
C9_ShortFrame ==
    n < 20 =>
        /\ trade_log = <<>>
        /\ \A k \in DOMAIN equity_curve : equity_curve[k] = initial_capital
        /\ pc = "done" => (Len(equity_curve) = n /\ total_return[1] = 0)
        /\ pc = "raised" => (n = 0 \/ initial_capital = 0)

C9_Witness ==
    /\ pc = "done"
    /\ n = 19
    /\ initial_capital = 10000000
    /\ Len(equity_curve) = 19
    /\ equity_curve[19] = 10000000
    /\ trade_log = <<>>

(* C10: the equity curve gets exactly one point per bar, warm-up bars      *)
(* included, and the point of bar i is cash + shares*close[i] with cash    *)
(* and shares taken after the trade of bar i, if any, has settled; a       *)
(* finished run holds len(df) points.                                      *)
C10_EquityPointPerBar ==
    [][/\ (BarPending /\ BarCompleted) =>
              equity_curve' = Append(equity_curve, cash' + position' * row'.Close)
       /\ ~(BarPending /\ BarCompleted) => equity_curve' = equity_curve
       /\ pc' = "done" => Len(equity_curve') = n']_vars

C10_Witness ==
    /\ pc = "done"
    /\ n > 20
    /\ position > 0
    /\ LastTrade.date = n - 1
    /\ Len(equity_curve) = n
    /\ equity_curve[n] = cash + position * row.Close
    /\ equity_curve[n] # cash

(* C11: a position still open after the last bar is not liquidated: the    *)
(* step that ends the run appends no SELL and leaves cash and shares       *)
(* alone, so the run ends LONG, and the final equity point and the total   *)
(* return value the held shares at the final close.                        *)
C11_NoForcedLiquidation ==
    [][(pc = "loop" /\ i = n /\ pc' = "done") =>
        /\ trade_log' = trade_log
        /\ position' = position
        /\ cash' = cash
        /\ position > 0 =>
             /\ trade_log'[Len(trade_log')].op = "BUY"
             /\ equity_curve'[n] = cash + position * row.Close
             /\ total_return' = <<(cash + position * row.Close - initial_capital) * 100,
                                  initial_capital>>]_vars

C11_Witness ==
    /\ pc = "done"
    /\ position = 900
    /\ LastTrade.op = "BUY"
    /\ LastTrade.date < n - 1
    /\ row.Close = 10000
    /\ equity_curve[n] = cash + 900 * 10000
    /\ total_return = <<(97030 + 9000000 - 10000000) * 100, 10000000>>

(* C13: with initial_capital <= 0 the run fails before any bar is          *)
(* simulated: no equity point, no trade, no result.  The code has no such  *)
(* check: it simulates every bar and returns a result for a negative       *)
(* capital.                                                                *)
C13_NonPositiveCapitalRejected ==
    initial_capital <= 0 =>
        /\ i = 0
        /\ equity_curve = <<>>
        /\ trade_log = <<>>
        /\ pc # "done"

StrictlyIncreasing(seq) == \A a, b \in DOMAIN seq : a < b => seq[a] < seq[b]

(* C14: an empty frame, or one whose timestamps are not strictly           *)
(* increasing, is rejected before any bar of it is simulated and never     *)
(* runs to a result.  (The kind of the error, DataError, is left out: the  *)
(* code defines none.)  The code checks neither condition: a frame out of  *)
(* order is simulated bar by bar to its result.                            *)
C14_BadFrameRejected ==
    (n = 0 \/ ~StrictlyIncreasing(index)) =>
        /\ i = 0
        /\ pc # "done"

(* C15: the trade log is append-only (a bar never changes or removes an    *)
(* earlier record) and chronological (the dates of its records strictly    *)
(* increase).  The first part holds; the dates are df.index values, which  *)
(* the code never checks (C14).                                            *)
C15_AppendOnlyChronological ==
    [][/\ Len(trade_log') >= Len(trade_log)
       /\ \A k \in DOMAIN trade_log : trade_log'[k] = trade_log[k]
       /\ \A a, b \in DOMAIN trade_log' :
              a < b => trade_log'[a].date < trade_log'[b].date]_vars

----------------------------------------------------------------------------
(* The signal scorer, under SpecScore *)

LatestCells == {latest.Close, latest.BBM, latest.BBU, latest.K, latest.D, latest.J,
                latest.MACD, latest.MACD_signal}

AllDefined == NaN \notin LatestCells

Val(cell) == CHOOSE x \in cell : TRUE

Bit(b) == IF b THEN 1 ELSE 0

Said(b, reason) == IF b THEN <<reason>> ELSE <<>>

Given(reason) == \E k \in DOMAIN reasons : reasons[k] = reason

(* C16: for a latest bar with every indicator defined, the score is the    *)
(* sum of +1 if close > BBM, +1 if close > BBU, +1 if K > D and K < 80,    *)
(* otherwise -1 if J > 100, and +1 if MACD > MACD_signal; the reasons are  *)
(* those of the rules that changed the score, in rule order; K == D earns  *)
(* no bonus; the bonus and the penalty of rule 3 are never both applied.   *)
C16_ScoreIsSumOfRules ==
    (score_pc = "scored" /\ AllDefined) =>
        LET close == Val(latest.Close)
            mid   == close > Val(latest.BBM)
            upper == close > Val(latest.BBU)
            cross == Val(latest.K) > Val(latest.D) /\ Val(latest.K) < 80
            over  == ~cross /\ Val(latest.J) > 100
            bull  == Val(latest.MACD) > Val(latest.MACD_signal)
        IN  /\ score = Bit(mid) + Bit(upper) + Bit(cross) - Bit(over) + Bit(bull)
            /\ reasons = Said(mid, "above_mid") \o Said(upper, "above_upper")
                         \o Said(cross, "kdj_cross") \o Said(over, "j_overbought")
                         \o Said(bull, "macd_bull")
            /\ (Val(latest.K) = Val(latest.D) => ~Given("kdj_cross"))
            /\ ~(Given("kdj_cross") /\ Given("j_overbought"))

(* K == D below 80 with J not above 100: rule 3 leaves the score alone *)
C16_Witness ==
    /\ score_pc = "scored"
    /\ AllDefined
    /\ latest.K = latest.D
    /\ latest.J = Num(100)
    /\ Gt(latest.Close, latest.BBU)
    /\ Gt(latest.MACD, latest.MACD_signal)
    /\ score = 3
    /\ reasons = <<"above_mid", "above_upper", "macd_bull">>

(* C17: the verdict is STRONG exactly when score >= 3, WEAK exactly when   *)
(* score <= 1 and NEUTRAL exactly when score = 2; a bar with close above   *)
(* BBM and below BBU, K = 60 > D = 50 and MACD < MACD_signal scores 2 and  *)
(* is NEUTRAL.                                                             *)
C17_Scenario ==
    /\ Gt(latest.Close, latest.BBM)
    /\ Gt(latest.BBU, latest.Close)
    /\ latest.K = Num(60)
    /\ latest.D = Num(50)
    /\ latest.J # NaN
    /\ Gt(latest.MACD_signal, latest.MACD)

C17_VerdictBands ==
    score_pc = "scored" =>
        /\ verdict = "STRONG" <=> score >= 3
        /\ verdict = "WEAK" <=> score <= 1
        /\ verdict = "NEUTRAL" <=> score = 2
        /\ C17_Scenario => (score = 2 /\ verdict = "NEUTRAL")

C17_Witness ==
    /\ score_pc = "scored"
    /\ C17_Scenario
    /\ reasons = <<"above_mid", "kdj_cross">>
    /\ verdict = "NEUTRAL"

(* C18: whatever the indicator values, the score is an integer in -1..4.   *)
(* Both bounds are reached: C18_Witness is a bar scoring -1 and            *)
(* C18_MaxReached a bar scoring 4.                                         *)
C18_ScoreRange == score_pc = "scored" => score \in -1..4

C18_Witness ==
    /\ score_pc = "scored"
    /\ score = -1
    /\ reasons = <<"j_overbought">>
    /\ verdict = "WEAK"

C18_MaxReached ==
    /\ score_pc = "scored"
    /\ score = 4
    /\ reasons = <<"above_mid", "above_upper", "kdj_cross", "macd_bull">>
    /\ verdict = "STRONG"

(* C19: when any of Close, BBM, BBU, K, D, J, MACD, MACD_signal is         *)
(* undefined on the latest bar the scorer fails and shows no score and no  *)
(* verdict.  The code has no such check: a comparison with NaN is false,   *)
(* so the rule is scored as not met and a verdict is shown.                *)
C19_UndefinedIsRejected ==
    ~AllDefined =>
        /\ score_pc # "scored"
        /\ verdict = "none"

----------------------------------------------------------------------------
(* The predictions table, under SpecPredict *)

(* C20: one check_predictions call sets a PENDING UP prediction of the     *)
(* user whose symbol has a price to CORRECT iff current >= initial * 1.01, *)
(* to INCORRECT iff current <= initial * 0.98, and leaves it PENDING       *)
(* otherwise: the thresholds are inclusive.  The code compares with > and  *)
(* <, so a price exactly on a threshold leaves the prediction PENDING.     *)
C20_UpThresholdsInclusive ==
    [][\A user_id \in Users, current_prices \in PriceMaps :
          check_predictions(user_id, current_prices) =>
              \A k \in DOMAIN predictions :
                  LET p == predictions[k]
                  IN  (/\ p.status = "PENDING"
                       /\ p.user_id = user_id
                       /\ p.prediction_type = "UP"
                       /\ p.symbol \in DOMAIN current_prices) =>
                          LET current == current_prices[p.symbol]
                              up      == current * 100 >= p.initial_price * 101
                              down    == current * 100 <= p.initial_price * 98
                          IN  /\ predictions'[k].status = "CORRECT" <=> up
                              /\ predictions'[k].status = "INCORRECT" <=> down
                              /\ predictions'[k].status = "PENDING" <=> ~up /\ ~down]_vars

(* C21: one check_predictions call sets a PENDING DOWN prediction of the   *)
(* user whose symbol has a price to CORRECT iff current <= initial * 0.99, *)
(* to INCORRECT iff current >= initial * 1.02, and leaves it PENDING       *)
(* otherwise, both thresholds inclusive.  The code compares with < and >.  *)
C21_DownThresholdsInclusive ==
    [][\A user_id \in Users, current_prices \in PriceMaps :
          check_predictions(user_id, current_prices) =>
              \A k \in DOMAIN predictions :
                  LET p == predictions[k]
                  IN  (/\ p.status = "PENDING"
                       /\ p.user_id = user_id
                       /\ p.prediction_type = "DOWN"
                       /\ p.symbol \in DOMAIN current_prices) =>
                          LET current == current_prices[p.symbol]
                              down    == current * 100 <= p.initial_price * 99
                              up      == current * 100 >= p.initial_price * 102
                          IN  /\ predictions'[k].status = "CORRECT" <=> down
                              /\ predictions'[k].status = "INCORRECT" <=> up
                              /\ predictions'[k].status = "PENDING" <=> ~up /\ ~down]_vars

SamePair(p, q) == p.user_id = q.user_id /\ p.symbol = q.symbol

(* C22: in every state reached by a sequence of add_prediction and         *)
(* check_predictions calls, a (user_id, symbol) pair has at most one       *)
(* PENDING prediction.                                                     *)
C22_OnePendingPerPair ==
    \A a, b \in DOMAIN predictions :
        (/\ a # b
         /\ SamePair(predictions[a], predictions[b])
         /\ predictions[a].status = "PENDING") => predictions[b].status # "PENDING"

(* A pair predicted a second time after its first prediction was resolved *)
C22_Witness ==
    \E a, b \in DOMAIN predictions :
        /\ a < b
        /\ SamePair(predictions[a], predictions[b])
        /\ predictions[a].status # "PENDING"
        /\ predictions[b].status = "PENDING"

(* C23: an add_prediction call for a pair that has a PENDING prediction    *)
(* returns a failure and leaves the table as it was: no row is inserted    *)
(* and the existing rows keep direction, initial_price and status.         *)
C23_DuplicateRejected ==
    [][\A user_id \in Users, symbol \in Symbols, p_type \in PredictionTypes,
          current_price \in InitialPrices :
          (/\ add_prediction(user_id, symbol, p_type, current_price)
           /\ \E k \in DOMAIN predictions :
                  /\ predictions[k].user_id = user_id
                  /\ predictions[k].symbol = symbol
                  /\ predictions[k].status = "PENDING") =>
              /\ returned'.op = "add_prediction"
              /\ returned'.ok = FALSE
              /\ predictions' = predictions]_vars

(* A rejected request, the PENDING row still in the table *)
C23_Witness ==
    /\ returned.op = "add_prediction"
    /\ returned.ok = FALSE
    /\ \E k \in DOMAIN predictions : predictions[k].status = "PENDING"

(* Row k left PENDING in this step *)
Moved(k) == predictions[k].status = "PENDING" /\ predictions'[k].status # "PENDING"

(* The price resolves a prediction of this direction, thresholds included *)
Qualifies(p_type, current, initial) ==
    \/ p_type = "UP" /\ (current * 100 >= initial * 101 \/ current * 100 <= initial * 98)
    \/ p_type = "DOWN" /\ (current * 100 <= initial * 99 \/ current * 100 >= initial * 102)

(* C24: CORRECT and INCORRECT are terminal.  No step changes a row that    *)
(* has left PENDING; a call returns no more messages than it moved rows    *)
(* out of PENDING, so a resolved row is not reported again; and a          *)
(* row leaves PENDING only in a check_predictions call of its user whose   *)
(* price map holds a qualifying price for its symbol.  (Of the three       *)
(* disjuncts under Moved, the first only spares the evaluation of the      *)
(* last: a call that leaves row k with another status is not this step.)   *)
C24_ResolvedIsTerminal ==
    [][/\ \A k \in DOMAIN predictions :
              /\ k \in DOMAIN predictions'
              /\ predictions[k].status # "PENDING" => predictions'[k] = predictions[k]
              /\ Moved(k) =>
                     \A user_id \in Users, current_prices \in PriceMaps :
                         \/ Checked(predictions[k], user_id, current_prices)
                                # predictions'[k].status
                         \/ /\ predictions[k].user_id = user_id
                            /\ predictions[k].symbol \in DOMAIN current_prices
                            /\ Qualifies(predictions[k].prediction_type,
                                         current_prices[predictions[k].symbol],
                                         predictions[k].initial_price)
                         \/ ~check_predictions(user_id, current_prices)
       /\ Len(returned'.messages) <= Cardinality({k \in DOMAIN predictions : Moved(k)})]_vars

(* A call of check_predictions that returned no message, on a table that   *)
(* holds a CORRECT and an INCORRECT row                                    *)
C24_Witness ==
    /\ returned.op = "check_predictions"
    /\ returned.messages = <<>>
    /\ \E k \in DOMAIN predictions : predictions[k].status = "CORRECT"
    /\ \E k \in DOMAIN predictions : predictions[k].status = "INCORRECT"

(* The price maps that hold no price for the symbol *)
MapsWithout(symbol) == UNION {[S -> CurrentPrices] : S \in SUBSET (Symbols \ {symbol})}

(* C25: a check_predictions call leaves unmodified and unreported every    *)
(* prediction whose symbol is not in its price map, and changes no         *)
(* prediction of another user: a row that changes belongs to the user of   *)
(* the call and its symbol has a price, and so has the symbol of every     *)
(* message: no call whose map lacks that symbol produces the step.  (The   *)
(* disjunct on Checked only spares the evaluation of the call for          *)
(* arguments that cannot have produced the step.)                          *)
C25_AbsentSymbolAndOtherOwner ==
    [][/\ \A k \in DOMAIN predictions :
              (k \in DOMAIN predictions' /\ predictions'[k] # predictions[k]) =>
                  \A user_id \in Users, current_prices \in PriceMaps :
                      \/ /\ predictions[k].user_id = user_id
                         /\ predictions[k].symbol \in DOMAIN current_prices
                      \/ Checked(predictions[k], user_id, current_prices)
                             # predictions'[k].status
                      \/ ~check_predictions(user_id, current_prices)
       /\ \A j \in DOMAIN returned'.messages :
              \A user_id \in Users, current_prices \in MapsWithout(returned'.messages[j].symbol) :
                  ~check_predictions(user_id, current_prices)]_vars

(* Two users predicted the same direction for the same symbol at the same  *)
(* price; the call of one resolved its row and reported it, the row of the *)
(* other is still PENDING                                                  *)
C25_Witness ==
    /\ returned.op = "check_predictions"
    /\ Len(returned.messages) = 1
    /\ Len(predictions) = 2
    /\ SamePair(predictions[1], [user_id |-> 1, symbol |-> returned.messages[1].symbol])
    /\ predictions[1].status = returned.messages[1].kind
    /\ predictions[2].user_id = 2
    /\ predictions[2].symbol = predictions[1].symbol
    /\ predictions[2].prediction_type = predictions[1].prediction_type
    /\ predictions[2].status = "PENDING"

MessageOf(k) == [symbol |-> predictions[k].symbol, kind |-> predictions'[k].status]

(* C26: the list a check_predictions call returns holds exactly one        *)
(* message for each prediction the call moved out of PENDING and none for  *)
(* the others: as many messages as status changes, each moved row with its *)
(* message and each message with its moved row.                            *)
C26_OneMessagePerChange ==
    [][LET moved == {k \in DOMAIN predictions : Moved(k)}
       IN  /\ Len(returned'.messages) = Cardinality(moved)
           /\ \A k \in moved : \E j \in DOMAIN returned'.messages :
                  returned'.messages[j] = MessageOf(k)
           /\ \A j \in DOMAIN returned'.messages : \E k \in moved :
                  returned'.messages[j] = MessageOf(k)]_vars

(* One call resolved two predictions, one CORRECT and one INCORRECT, and   *)
(* returned the two messages                                               *)
C26_Witness ==
    /\ returned.op = "check_predictions"
    /\ Len(predictions) = 2
    /\ predictions[1].status = "INCORRECT"
    /\ predictions[2].status = "CORRECT"
    /\ returned.messages = <<[symbol |-> predictions[1].symbol, kind |-> "INCORRECT"],
                             [symbol |-> predictions[2].symbol, kind |-> "CORRECT"]>>

(* C27: a request add_prediction rejects (a PENDING prediction of the pair *)
(* exists, or the insert fails) is reported as a failure by the watchlist  *)
(* page, never as recorded.  add_prediction does return (False, text),     *)
(* but the page tests the pair itself, which is true whatever it holds.    *)
C27_RejectionReported ==
    (returned.op = "add_prediction" /\ ~returned.ok) => shown = "error"

----------------------------------------------------------------------------
(* Calls that overlap, under SpecRace *)

PendingOf(user_id, symbol) ==
    {k \in DOMAIN predictions :
        /\ predictions[k].user_id = user_id
        /\ predictions[k].symbol = symbol
        /\ predictions[k].status = "PENDING"}

(* C28: when two add_prediction calls for the same (user_id, symbol) run   *)
(* on separate connections with their SELECT and INSERT steps in any       *)
(* order, at most one inserts: the pair never has two PENDING rows.  Both  *)
(* SELECTs can run before either INSERT, and the table has no unique key.  *)
C28_ConcurrentAddsOnePending ==
    \A user_id \in RaceUsers, symbol \in RaceSymbols :
        Cardinality(PendingOf(user_id, symbol)) <= 1

(* C29: when two check_predictions calls of one user overlap, a status     *)
(* committed as CORRECT or INCORRECT by one is never overwritten by the    *)
(* UPDATE of the other, and a prediction is reported by at most one of     *)
(* them: every message of a call is for a row that call moved out of       *)
(* PENDING.  The UPDATE is by id alone, on rows fetched before.            *)
C29_ConcurrentChecksOnce ==
    [][/\ \A k \in DOMAIN predictions :
              predictions[k].status # "PENDING" =>
                  predictions'[k].status = predictions[k].status
       /\ (\E c \in Connections : conn[c].pc = "check_selected" /\ conn'[c].pc = "idle") =>
              Len(returned'.messages) <= Cardinality({k \in DOMAIN predictions : Moved(k)})]_vars

====
